---- MODULE Spec2Model ----
(***************************************************************************)
(* Model of em_util.py: the ZMQ CSV replayer (replay), the ZMQ consumer     *)
(* (consume), the frame codec (pack_sensor_data / unpack_sensor_data) and   *)
(* the headless orchestrator (__main__) that runs both as threads.          *)
(*                                                                         *)
(* Time is kept in milliseconds: time_diffs of the source is in seconds     *)
(* (the millisecond difference divided by 1000.0), and time.sleep(1) is     *)
(* 1000 ms.                                                                *)
(***************************************************************************)
EXTENDS Integers, Sequences, FiniteSets, TLC

VARIABLES
    path_exists,  \* os.path.exists(rel_path)
    readable,     \* pd.read_csv reads the file and it has the nine columns
    loop_data,    \* replay's loop_data argument (-r)
    N,            \* consume's N argument (-n)
    df,           \* the rows of the CSV after column selection, in file order
    orchPc,       \* position of the main thread (__main__, headless branch)
    pubPc,        \* position of replay
    idx,          \* replay: 1-based number of the row the for loop is at
    pass,         \* replay: number of the current pass of the while loop
    pubSock,      \* replay: socket   ("none" | "open" | "closed")
    pubCtx,       \* replay: context  ("none" | "open" | "terminated")
    pubExit,      \* replay: how the try block was left
    sent,         \* every message replay handed to socket.send_multipart
    slept,        \* replay: ms spent in time.sleep since the last send
    gaps,         \* gaps[j]: ms replay was suspended just before sent[j]
    subPc,        \* position of consume
    subSock,      \* consume: socket
    subCtx,       \* consume: context
    subExit,      \* consume: how the receive loop was left
    subs,         \* consume: the subscription strings set on the SUB socket
    linked,       \* the SUB socket's subscriptions are in effect at a publisher
    queue,        \* messages delivered to the SUB socket and not yet received
    received,     \* the messages recv_multipart returned, in order
    surfaced,     \* the tuples consume decoded and printed, in order
    foreign       \* messages put on port 5555 by a peer other than replay

vars == <<path_exists, readable, loop_data, N, df, orchPc, pubPc, idx, pass, pubSock,
          pubCtx, pubExit, sent, slept, gaps, subPc, subSock, subCtx,
          subExit, subs, linked, queue, received, surfaced, foreign>>

inputVars == <<path_exists, readable, loop_data, N, df>>
pubVars == <<pubPc, idx, pass, pubSock, pubCtx, pubExit, sent, slept, gaps>>
subVars == <<subPc, subSock, subCtx, subExit, subs, received, surfaced>>

(***************************************************************************)
(* Bounds of the model.                                                    *)
(***************************************************************************)
MaxRows == 2      \* longest log
MaxN == 2         \* largest subscriber count
MaxPasses == 2    \* passes of a looping replay that are followed
MaxForeign == 3   \* messages a foreign publisher puts on the port
MaxLog == 3       \* longest log when replay is followed on its own

(***************************************************************************)
(* Bytes and strings.  A string is the sequence of its characters; its     *)
(* UTF-8 encoding is the sequence of their codes (all characters used are  *)
(* ASCII).                                                                 *)
(***************************************************************************)
Chars == <<"0", "1", "2", "3", "4", "5", "6", "7", "8", "9",
           "/", "c", "d", "e", "l", "m", "n", "o", "r", "s", "t">>
Codes == <<48, 49, 50, 51, 52, 53, 54, 55, 56, 57,
           47, 99, 100, 101, 108, 109, 110, 111, 114, 115, 116>>

Ord(c) == Codes[CHOOSE k \in 1..Len(Chars) : Chars[k] = c]
Chr(b) == Chars[CHOOSE k \in 1..Len(Codes) : Codes[k] = b]

\* str.encode('utf-8') and bytes.decode('utf-8') on ASCII text
encode_utf8(s) == [k \in 1..Len(s) |-> Ord(s[k])]
decode_utf8(bs) == [k \in 1..Len(bs) |-> Chr(bs[k])]

\* str(n) for an integer n >= 0, as f"{n}" formats it
RECURSIVE Decimal(_)
Decimal(n) ==
    IF n < 10 THEN <<Chars[n + 1]>>
    ELSE Decimal(n \div 10) \o <<Chars[(n % 10) + 1]>>

IsPrefix(p, s) == Len(p) <= Len(s) /\ SubSeq(s, 1, Len(p)) = p

SensorPrefix == <<"s", "e", "n", "s", "o", "r", "/", "e", "m", "/">>
DoneTopic == <<"c", "o", "n", "t", "r", "o", "l", "/", "d", "o", "n", "e">>

\* SensorTopic numbering the sensors from 0
SensorTopic_FromZero(n) == SensorPrefix \o Decimal(n - 1)

\* f"sensor/em/{n}"
SensorTopic(n) == SensorPrefix \o Decimal(n)

(***************************************************************************)
(* struct '<iqfffffff': little-endian, 4-byte int, 8-byte int, 7 floats.   *)
(* Float fields are modelled for integer-valued doubles.                   *)
(***************************************************************************)
RECURSIVE Pow2(_)
Pow2(n) == IF n = 0 THEN 1 ELSE 2 * Pow2(n - 1)

RECURSIVE LEU(_, _)
LEU(u, n) == IF n = 0 THEN <<>> ELSE <<u % 256>> \o LEU(u \div 256, n - 1)

\* two's-complement little-endian bytes of v in n bytes
LE(v, n) ==
    IF v >= 0 THEN LEU(v, n)
    ELSE [j \in 1..n |-> 255 - LEU(-v - 1, n)[j]]

RECURSIVE FromLEU(_)
FromLEU(bs) == IF bs = <<>> THEN 0 ELSE Head(bs) + 256 * FromLEU(Tail(bs))

FromLE(bs) ==
    IF bs[Len(bs)] < 128 THEN FromLEU(bs)
    ELSE -(1 + FromLEU([j \in 1..Len(bs) |-> 255 - bs[j]]))

RECURSIVE Log2(_)
Log2(a) == IF a < 2 THEN 0 ELSE 1 + Log2(a \div 2)

\* IEEE-754 single precision of the integer-valued double v, round to
\* nearest even: <<sign, biased exponent, fraction>>
Float32Fields(v) ==
    IF v = 0 THEN <<0, 0, 0>>
    ELSE
        LET a == IF v < 0 THEN -v ELSE v
            e == Log2(a)
            sh == e - 23
            q == IF sh <= 0 THEN a * Pow2(23 - e) ELSE a \div Pow2(sh)
            r == IF sh <= 0 THEN 0 ELSE a % Pow2(sh)
            half == IF sh <= 0 THEN 1 ELSE Pow2(sh - 1)
            up == sh > 0 /\ (r > half \/ (r = half /\ q % 2 = 1))
            m == IF up THEN q + 1 ELSE q
            carry == m = Pow2(24)
        IN  <<IF v < 0 THEN 1 ELSE 0,
              (IF carry THEN e + 1 ELSE e) + 127,
              IF carry THEN 0 ELSE m - Pow2(23)>>

PackFloat(v) ==
    LET f == Float32Fields(v)
    IN  <<f[3] % 256,
          (f[3] \div 256) % 256,
          (f[3] \div 65536) + 128 * (f[2] % 2),
          (f[2] \div 2) + 128 * f[1]>>

\* the double a 4-byte single-precision field widens to
UnpackFloat(bs) ==
    LET sign == bs[4] \div 128
        E == 2 * (bs[4] % 128) + (bs[3] \div 128)
        frac == bs[1] + 256 * bs[2] + 65536 * (bs[3] % 128)
        m == frac + Pow2(23)
        e == E - 127
        a == IF e >= 23 THEN m * Pow2(e - 23) ELSE m \div Pow2(23 - e)
    IN  IF E = 0 /\ frac = 0 THEN 0
        ELSE IF sign = 1 THEN -a ELSE a

FrameLen == 40

\* a cell of the 'time' column: a number, or NaN (an empty cell)
Num(v) == [isnan |-> FALSE, v |-> v]
NaN == [isnan |-> TRUE, v |-> 0]

\* int(row['time']) raises ValueError on NaN
PackRaises(row) == row.time.isnan

\* pack_sensor_data with y packed ahead of x
pack_sensor_data_YBeforeX(row) ==
    LE(row.sensor_id, 4) \o LE(row.time.v, 8)
    \o PackFloat(row.y) \o PackFloat(row.x) \o PackFloat(row.z)
    \o PackFloat(row.qw) \o PackFloat(row.qx) \o PackFloat(row.qy)
    \o PackFloat(row.qz)

pack_sensor_data(row) ==
    LE(row.sensor_id, 4) \o LE(row.time.v, 8)
    \o PackFloat(row.x) \o PackFloat(row.y) \o PackFloat(row.z)
    \o PackFloat(row.qw) \o PackFloat(row.qx) \o PackFloat(row.qy)
    \o PackFloat(row.qz)

\* struct.unpack raises struct.error unless the buffer is exactly 40 bytes
UnpackRaises(message_bytes) == Len(message_bytes) # FrameLen

unpack_sensor_data(message_bytes) ==
    <<FromLE(SubSeq(message_bytes, 1, 4)),
      FromLE(SubSeq(message_bytes, 5, 12))>>
    \o [j \in 1..7 |->
          UnpackFloat(SubSeq(message_bytes, 9 + 4 * j, 12 + 4 * j))]

(***************************************************************************)
(* Inputs.                                                                 *)
(***************************************************************************)
\* a row of df; position and orientation are those of an identity pose
Row(s, t) ==
    [sensor_id |-> s, time |-> t,
     x |-> 0, y |-> 0, z |-> 0, qw |-> 1, qx |-> 0, qy |-> 0, qz |-> 0]

\* the rows a log is made of: sensor ids inside and outside 1..N, one of
\* them (10) with the decimal form of another (1) as a prefix; timestamps
\* that rise, repeat or fall from one row to the next; an empty Frame cell
Rows ==
    {Row(1, Num(100)), Row(2, Num(220)), Row(10, Num(500)), Row(1, NaN)}

Logs == UNION {[1..n -> Rows] : n \in 0..MaxRows}

Message(topic_bytes, message_bytes) ==
    [topic |-> topic_bytes, payload |-> message_bytes]

\* [b'control/done', b'']
Sentinel == Message(encode_utf8(DoneTopic), <<>>)

(***************************************************************************)
(* The channel: a SUB socket gets a message exactly when one of its        *)
(* subscription strings is a prefix of the message's first frame.          *)
(***************************************************************************)
Matches(ss, topic_bytes) == \E p \in ss : IsPrefix(p, topic_bytes)

Accepts(msg) == linked /\ subSock = "open" /\ Matches(subs, msg.topic)

Deliver(msg) == queue' = IF Accepts(msg) THEN Append(queue, msg) ELSE queue

\* the subscriptions of a connected SUB socket reach the bound PUB socket
Link ==
    /\ pubSock = "open"
    /\ pubExit # "transport"
    /\ subSock = "open"
    /\ subs # {}
    /\ ~linked
    /\ linked' = TRUE
    /\ UNCHANGED <<inputVars, orchPc, pubVars, subVars, queue, foreign>>

(***************************************************************************)
(* replay(rel_path, loop_data)                                             *)
(***************************************************************************)
\* np.diff(df['time'], prepend=df['time'].iloc[0]), in ms; NaN propagates
time_diffs(k) ==
    LET cur == df[k].time
        prev == IF k = 1 THEN df[1].time ELSE df[k - 1].time
    IN  IF cur.isnan \/ prev.isnan THEN NaN ELSE Num(cur.v - prev.v)

\* Positive as a test for a non-zero difference
Positive_NonZero(c) == ~c.isnan /\ c.v # 0

\* time_diffs[i] > 0 (False for NaN)
Positive(c) == ~c.isnan /\ c.v > 0

\* the finally block: socket.close(); context.term()
PubRelease(how) ==
    /\ pubSock' = "closed"
    /\ pubCtx' = "terminated"
    /\ pubExit' = how
    /\ pubPc' = "done"

\* lines 36-43: the existence check, then context, socket and bind
PubStart ==
    /\ pubPc = "start"
    /\ IF ~path_exists
       THEN /\ pubPc' = "returned"
            /\ UNCHANGED <<pubSock, pubCtx, pubExit>>
       ELSE /\ pubSock' = "open"
            /\ pubCtx' = "open"
            /\ \/ /\ pubPc' = "pause"
                  /\ UNCHANGED pubExit
               \/ /\ pubPc' = "crashed"      \* bind raises zmq.ZMQError
                  /\ pubExit' = "transport"
    /\ UNCHANGED <<inputVars, orchPc, idx, pass, sent, slept, gaps,
                   subVars, linked, queue, foreign>>

\* line 44: time.sleep(1), outside the try block
PubPause ==
    /\ pubPc = "pause"
    /\ pubPc' = "read"
    /\ UNCHANGED <<inputVars, orchPc, idx, pass, pubSock, pubCtx, pubExit,
                   sent, slept, gaps, subVars, linked, queue, foreign>>

\* PubRead that goes on to "Replay finished." when the read fails
PubRead_FinishOnFailure ==
    /\ pubPc = "read"
    /\ IF ~readable \/ df = <<>>
       THEN /\ pubPc' = "finish"
            /\ UNCHANGED <<idx, pubSock, pubCtx, pubExit>>
       ELSE /\ pubPc' = "send"
            /\ idx' = 1
            /\ UNCHANGED <<pubSock, pubCtx, pubExit>>
    /\ UNCHANGED <<inputVars, orchPc, pass, sent, slept, gaps,
                   subVars, linked, queue, foreign>>

\* lines 53-61: read_csv, the column selection and time_diffs.  read_csv
\* raises on a file it cannot read or parse, df[...] raises KeyError on a
\* missing column, and df['time'].iloc[0] raises IndexError on a log
\* without rows: each is caught at line 84
PubRead ==
    /\ pubPc = "read"
    /\ IF ~readable \/ df = <<>>
       THEN /\ PubRelease("error")
            /\ UNCHANGED idx
       ELSE /\ pubPc' = "send"
            /\ idx' = 1
            /\ UNCHANGED <<pubSock, pubCtx, pubExit>>
    /\ UNCHANGED <<inputVars, orchPc, pass, sent, slept, gaps,
                   subVars, linked, queue, foreign>>

\* AfterRow with the loop bound off by one: the last row is never reached
AfterRow_OffByOne(k) ==
    IF k + 1 < Len(df) THEN pubPc' = "send" /\ idx' = k + 1
    ELSE /\ pubPc' = IF loop_data THEN "restart" ELSE "finish"
         /\ idx' = k

\* where the for loop goes after row k: the next row, or the end of the pass
AfterRow(k) ==
    IF k < Len(df) THEN pubPc' = "send" /\ idx' = k + 1
    ELSE /\ pubPc' = IF loop_data THEN "restart" ELSE "finish"
         /\ idx' = k

\* lines 65-69: topic, pack, send_multipart, and the test of time_diffs[i]
PubSend ==
    /\ pubPc = "send"
    /\ LET row == df[idx]
           topic == SensorTopic(row.sensor_id)
       IN  IF PackRaises(row)
           THEN /\ PubRelease("error")
                /\ UNCHANGED <<idx, sent, slept, gaps, queue>>
           ELSE LET msg == Message(encode_utf8(topic), pack_sensor_data(row))
                IN  /\ sent' = Append(sent, msg)
                    /\ gaps' = Append(gaps, slept)
                    /\ slept' = 0
                    /\ Deliver(msg)
                    /\ IF Positive(time_diffs(idx))
                       THEN pubPc' = "sleep" /\ UNCHANGED idx
                       ELSE AfterRow(idx)
                    /\ UNCHANGED <<pubSock, pubCtx, pubExit>>
    /\ UNCHANGED <<inputVars, orchPc, pass, subVars, linked, foreign>>

\* line 70: time.sleep(time_diffs[i])
PubSleep ==
    /\ pubPc = "sleep"
    /\ slept' = slept + time_diffs(idx).v
    /\ AfterRow(idx)
    /\ UNCHANGED <<inputVars, orchPc, pass, pubSock, pubCtx, pubExit, sent,
                   gaps, subVars, linked, queue, foreign>>

\* PubRestart that resumes at the row the last pass ended on
PubRestart_NoRewind ==
    /\ pubPc = "restart"
    /\ pass < MaxPasses
    /\ slept' = slept + 1000
    /\ pass' = pass + 1
    /\ idx' = Len(df)
    /\ pubPc' = "send"
    /\ UNCHANGED <<inputVars, orchPc, pubSock, pubCtx, pubExit, sent, gaps,
                   subVars, linked, queue, foreign>>

\* lines 75-76: "Replay loop restarting...", time.sleep(1), next pass
PubRestart ==
    /\ pubPc = "restart"
    /\ pass < MaxPasses
    /\ slept' = slept + 1000
    /\ pass' = pass + 1
    /\ idx' = 1
    /\ pubPc' = "send"
    /\ UNCHANGED <<inputVars, orchPc, pubSock, pubCtx, pubExit, sent, gaps,
                   subVars, linked, queue, foreign>>

\* lines 78-79: "Replay finished.", the sentinel
PubFinish ==
    /\ pubPc = "finish"
    /\ sent' = Append(sent, Sentinel)
    /\ gaps' = Append(gaps, slept)
    /\ slept' = 0
    /\ Deliver(Sentinel)
    /\ pubPc' = "linger"
    /\ UNCHANGED <<inputVars, orchPc, idx, pass, pubSock, pubCtx, pubExit,
                   subVars, linked, foreign>>

\* line 80: time.sleep(1), then the finally block
PubLinger ==
    /\ pubPc = "linger"
    /\ PubRelease("finished")
    /\ UNCHANGED <<inputVars, orchPc, idx, pass, sent, slept, gaps,
                   subVars, linked, queue, foreign>>

\* KeyboardInterrupt / SystemExit raised in replay: inside the try block
\* (lines 52-80) the handler of line 82 and the finally block run; during
\* the pause of line 44 the exception leaves replay at once
PubInterrupt ==
    /\ pubPc \in {"pause", "read", "send", "sleep", "restart", "finish",
                  "linger"}
    /\ IF pubPc = "pause"
       THEN /\ pubPc' = "crashed"
            /\ pubExit' = "interrupted"
            /\ UNCHANGED <<pubSock, pubCtx>>
       ELSE PubRelease("interrupted")
    /\ UNCHANGED <<inputVars, orchPc, idx, pass, sent, slept, gaps,
                   subVars, linked, queue, foreign>>

(***************************************************************************)
(* consume(N)                                                              *)
(***************************************************************************)
\* the strings of lines 104-106, as setsockopt_string encodes them
Subscriptions(n) ==
    {encode_utf8(SensorTopic(k)) : k \in 1..n} \cup {encode_utf8(DoneTopic)}

\* the finally block: socket.close(); context.term()
SubRelease(how) ==
    /\ subSock' = "closed"
    /\ subCtx' = "terminated"
    /\ subExit' = how
    /\ subPc' = "done"
    /\ linked' = FALSE

\* lines 99-102: context, socket, connect
SubStart ==
    /\ subPc = "start"
    /\ subSock' = "open"
    /\ subCtx' = "open"
    /\ subPc' = "subscribing"
    /\ UNCHANGED <<inputVars, orchPc, pubVars, subExit, subs, received,
                   surfaced, linked, queue, foreign>>

\* lines 104-106: the N sensor subscriptions and 'control/done'
SubSubscribe ==
    /\ subPc = "subscribing"
    /\ subs' = Subscriptions(N)
    /\ subPc' = "recv"
    /\ UNCHANGED <<inputVars, orchPc, pubVars, subSock, subCtx, subExit,
                   received, surfaced, linked, queue, foreign>>

\* IsDone as a comparison that never succeeds (bytes against str)
IsDone_NeverEqual(topic, message_bytes) == topic = DoneTopic /\ FALSE

\* IsDone that also wants the sentinel's payload to be empty
IsDone_EmptyPayload(topic, message_bytes) ==
    topic = DoneTopic /\ message_bytes = <<>>

\* line 113: the test that ends the receive loop
IsDone(topic, message_bytes) == topic = DoneTopic

\* lines 110-122: one turn of the receive loop.  struct.error is not
\* caught by the handler of line 124: it leaves consume through finally
\* SubRecv with the topic and the payload read by two receive calls, so
\* that the message after the one handled is consumed as well
SubRecv_TwoReceives ==
    /\ subPc = "recv"
    /\ queue # <<>>
    /\ LET topic_bytes == Head(queue).topic
           message_bytes == Head(queue).payload
           topic == decode_utf8(topic_bytes)
       IN  /\ queue' = IF Len(queue) >= 2 THEN Tail(Tail(queue))
                        ELSE Tail(queue)
           /\ received' = Append(received, Head(queue))
           /\ IF IsDone(topic, message_bytes)
              THEN SubRelease("sentinel") /\ UNCHANGED surfaced
              ELSE IF UnpackRaises(message_bytes)
              THEN SubRelease("error") /\ UNCHANGED surfaced
              ELSE /\ surfaced' =
                        Append(surfaced, unpack_sensor_data(message_bytes))
                   /\ UNCHANGED <<subPc, subSock, subCtx, subExit, linked>>
    /\ UNCHANGED <<inputVars, orchPc, pubVars, subs, foreign>>

SubRecv ==
    /\ subPc = "recv"
    /\ queue # <<>>
    /\ LET topic_bytes == Head(queue).topic
           message_bytes == Head(queue).payload
           topic == decode_utf8(topic_bytes)
       IN  /\ queue' = Tail(queue)
           /\ received' = Append(received, Head(queue))
           /\ IF IsDone(topic, message_bytes)
              THEN SubRelease("sentinel") /\ UNCHANGED surfaced
              ELSE IF UnpackRaises(message_bytes)
              THEN SubRelease("error") /\ UNCHANGED surfaced
              ELSE /\ surfaced' =
                        Append(surfaced, unpack_sensor_data(message_bytes))
                   /\ UNCHANGED <<subPc, subSock, subCtx, subExit, linked>>
    /\ UNCHANGED <<inputVars, orchPc, pubVars, subs, foreign>>

\* KeyboardInterrupt / SystemExit raised in consume: in the receive loop
\* the handler of line 124 and the finally block run; during lines 101-106
\* the exception leaves consume at once
SubInterrupt ==
    /\ subPc \in {"subscribing", "recv"}
    /\ IF subPc = "subscribing"
       THEN /\ subPc' = "crashed"
            /\ subExit' = "interrupted"
            /\ UNCHANGED <<subSock, subCtx, linked>>
       ELSE SubRelease("interrupted")
    /\ UNCHANGED <<inputVars, orchPc, pubVars, subs, received, surfaced,
                   queue, foreign>>

(***************************************************************************)
(* A publisher other than replay bound to port 5555 (possible only while   *)
(* replay's socket does not hold the port).                                *)
(***************************************************************************)
ShortFrame == [j \in 1..10 |-> 0]

ForeignMessages ==
    {Message(encode_utf8(SensorTopic(1)), ShortFrame),
     Message(encode_utf8(SensorTopic(1)), pack_sensor_data(Row(1, Num(100)))),
     Message(encode_utf8(SensorTopic(5)), pack_sensor_data(Row(5, Num(100)))),
     Message(encode_utf8(DoneTopic), <<1>>),
     Sentinel}

Inject ==
    /\ foreign < MaxForeign
    /\ pubSock # "open"
    /\ subSock = "open"
    /\ subs # {}
    /\ \E msg \in ForeignMessages :
          queue' = IF Matches(subs, msg.topic)
                   THEN Append(queue, msg) ELSE queue
    /\ foreign' = foreign + 1
    /\ UNCHANGED <<inputVars, orchPc, pubVars, subVars, linked>>

(***************************************************************************)
(* __main__, headless branch (lines 295-307)                               *)
(***************************************************************************)
PubTerminated == pubPc \in {"returned", "done", "crashed"}
SubTerminated == subPc \in {"done", "crashed"}

\* lines 297-301: both threads are created and started
OrchStart ==
    /\ orchPc = "main"
    /\ pubPc' = "start"
    /\ subPc' = "start"
    /\ orchPc' = "joinPub"
    /\ UNCHANGED <<inputVars, idx, pass, pubSock, pubCtx, pubExit, sent,
                   slept, gaps, subSock, subCtx, subExit, subs, received,
                   surfaced, linked, queue, foreign>>

\* line 303: publisher_thread.join()
OrchJoinPub ==
    /\ orchPc = "joinPub"
    /\ PubTerminated
    /\ orchPc' = "joinSub"
    /\ UNCHANGED <<inputVars, pubVars, subVars, linked, queue, foreign>>

\* lines 304, 307: consumer_thread.join(), "Headless Mode Finished"
OrchJoinSub ==
    /\ orchPc = "joinSub"
    /\ SubTerminated
    /\ orchPc' = "finished"
    /\ UNCHANGED <<inputVars, pubVars, subVars, linked, queue, foreign>>

\* lines 305-307: KeyboardInterrupt in a join, "Headless Mode Finished"
OrchInterrupt ==
    /\ orchPc \in {"joinPub", "joinSub"}
    /\ orchPc' = "finished"
    /\ UNCHANGED <<inputVars, pubVars, subVars, linked, queue, foreign>>

(***************************************************************************)
(* Specifications.                                                         *)
(***************************************************************************)
Init ==
    /\ path_exists \in BOOLEAN
    /\ loop_data \in BOOLEAN
    /\ N \in 1..MaxN
    /\ readable \in BOOLEAN
    /\ df \in Logs
    /\ (~path_exists => ~readable)
    /\ (~readable => df = <<>>)
    /\ orchPc = "main"
    /\ pubPc = "idle"
    /\ idx = 0
    /\ pass = 1
    /\ pubSock = "none"
    /\ pubCtx = "none"
    /\ pubExit = "none"
    /\ sent = <<>>
    /\ slept = 0
    /\ gaps = <<>>
    /\ subPc = "idle"
    /\ subSock = "none"
    /\ subCtx = "none"
    /\ subExit = "none"
    /\ subs = {}
    /\ linked = FALSE
    /\ queue = <<>>
    /\ received = <<>>
    /\ surfaced = <<>>
    /\ foreign = 0

Next ==
    \/ OrchStart
    \/ OrchJoinPub
    \/ OrchJoinSub
    \/ OrchInterrupt
    \/ PubStart
    \/ PubPause
    \/ PubRead
    \/ PubSend
    \/ PubSleep
    \/ PubRestart
    \/ PubFinish
    \/ PubLinger
    \/ PubInterrupt
    \/ SubStart
    \/ SubSubscribe
    \/ SubRecv
    \/ SubInterrupt
    \/ Link

Spec == Init /\ [][Next]_vars

\* consume(N) on its own, fed by whatever publisher holds port 5555
InitConsume ==
    /\ path_exists = FALSE
    /\ readable = FALSE
    /\ loop_data = FALSE
    /\ N \in 1..MaxN
    /\ df = <<>>
    /\ orchPc = "main"
    /\ pubPc = "idle"
    /\ idx = 0
    /\ pass = 1
    /\ pubSock = "none"
    /\ pubCtx = "none"
    /\ pubExit = "none"
    /\ sent = <<>>
    /\ slept = 0
    /\ gaps = <<>>
    /\ subPc = "start"
    /\ subSock = "none"
    /\ subCtx = "none"
    /\ subExit = "none"
    /\ subs = {}
    /\ linked = FALSE
    /\ queue = <<>>
    /\ received = <<>>
    /\ surfaced = <<>>
    /\ foreign = 0

NextConsume ==
    \/ SubStart
    \/ SubSubscribe
    \/ SubRecv
    \/ SubInterrupt
    \/ Inject

SpecConsume == InitConsume /\ [][NextConsume]_vars

\* replay(rel_path, loop_data) on its own, on logs of up to MaxLog rows
ReplayLogs == UNION {[1..n -> Rows] : n \in 0..MaxLog}

InitReplay ==
    /\ path_exists \in BOOLEAN
    /\ readable \in BOOLEAN
    /\ loop_data \in BOOLEAN
    /\ N = 1
    /\ df \in ReplayLogs
    /\ (~path_exists => ~readable)
    /\ (~readable => df = <<>>)
    /\ orchPc = "main"
    /\ pubPc = "start"
    /\ idx = 0
    /\ pass = 1
    /\ pubSock = "none"
    /\ pubCtx = "none"
    /\ pubExit = "none"
    /\ sent = <<>>
    /\ slept = 0
    /\ gaps = <<>>
    /\ subPc = "idle"
    /\ subSock = "none"
    /\ subCtx = "none"
    /\ subExit = "none"
    /\ subs = {}
    /\ linked = FALSE
    /\ queue = <<>>
    /\ received = <<>>
    /\ surfaced = <<>>
    /\ foreign = 0

NextReplay ==
    \/ PubStart
    \/ PubPause
    \/ PubRead
    \/ PubSend
    \/ PubSleep
    \/ PubRestart
    \/ PubFinish
    \/ PubLinger
    \/ PubInterrupt

SpecReplay == InitReplay /\ [][NextReplay]_vars

\* the headless run when no KeyboardInterrupt arrives: every thread that
\* can take a step eventually takes one
PubNext ==
    \/ PubStart
    \/ PubPause
    \/ PubRead
    \/ PubSend
    \/ PubSleep
    \/ PubRestart
    \/ PubFinish
    \/ PubLinger

SubNext ==
    \/ SubStart
    \/ SubSubscribe
    \/ SubRecv

OrchNext ==
    \/ OrchStart
    \/ OrchJoinPub
    \/ OrchJoinSub

NextRun ==
    \/ PubNext
    \/ SubNext
    \/ OrchNext
    \/ Link

SpecRun ==
    /\ Init
    /\ [][NextRun]_vars
    /\ WF_vars(PubNext)
    /\ WF_vars(SubNext)
    /\ WF_vars(OrchNext)

(***************************************************************************)
(* pack_sensor_data and unpack_sensor_data alone: one row is packed and    *)
(* the frame unpacked.  Timestamps are taken from the 32-bit range the     *)
(* checker's integers have.                                                *)
(***************************************************************************)
CodecIds == {-2147483647, -1, 0, 1, 10, 2147483647}

CodecTimes == {-1, 0, 100, 2147483647}

\* <<x, y, z, qw, qx, qy, qz>>: values a 24-bit significand holds and
\* values it does not
CodecFloats ==
    {<<v, 0, 0, 1, 0, 0, 0>> :
        v \in {0, 1, -2, 3, 16777215, 16777216, 16777217, -16777217,
                33554431, 33554432, 1073741823}}
    \cup {<<1, 2, 3, 4, 5, 6, 7>>, <<0, 0, 0, 0, 0, 0, 16777219>>}

CodecRow(s, t, f) ==
    [sensor_id |-> s, time |-> Num(t),
     x |-> f[1], y |-> f[2], z |-> f[3],
     qw |-> f[4], qx |-> f[5], qy |-> f[6], qz |-> f[7]]

CodecRows ==
    {CodecRow(s, t, f) : s \in CodecIds, t \in CodecTimes, f \in CodecFloats}

InitCodec ==
    /\ path_exists = TRUE
    /\ readable = TRUE
    /\ loop_data = FALSE
    /\ N = 1
    /\ df \in {<<row>> : row \in CodecRows}
    /\ orchPc = "main"
    /\ pubPc = "pack"
    /\ idx = 1
    /\ pass = 1
    /\ pubSock = "none"
    /\ pubCtx = "none"
    /\ pubExit = "none"
    /\ sent = <<>>
    /\ slept = 0
    /\ gaps = <<>>
    /\ subPc = "unpack"
    /\ subSock = "none"
    /\ subCtx = "none"
    /\ subExit = "none"
    /\ subs = {}
    /\ linked = FALSE
    /\ queue = <<>>
    /\ received = <<>>
    /\ surfaced = <<>>
    /\ foreign = 0

\* message_bytes = pack_sensor_data(row)
CodecPack ==
    /\ pubPc = "pack"
    /\ pubPc' = "packed"
    /\ sent' = <<Message(<<>>, pack_sensor_data(df[idx]))>>
    /\ UNCHANGED <<inputVars, orchPc, idx, pass, pubSock, pubCtx, pubExit,
                   slept, gaps, subVars, linked, queue, foreign>>

\* unpack_sensor_data(message_bytes)
CodecUnpack ==
    /\ pubPc = "packed"
    /\ subPc = "unpack"
    /\ ~UnpackRaises(sent[1].payload)
    /\ subPc' = "decoded"
    /\ surfaced' = <<unpack_sensor_data(sent[1].payload)>>
    /\ UNCHANGED <<inputVars, orchPc, pubVars, subSock, subCtx, subExit,
                   subs, received, linked, queue, foreign>>

NextCodec ==
    \/ CodecPack
    \/ CodecUnpack

SpecCodec == InitCodec /\ [][NextCodec]_vars

(***************************************************************************)
(* Properties.                                                             *)
(***************************************************************************)
DoneBytes == encode_utf8(DoneTopic)

IsSentinelMsg(msg) == msg.topic = DoneBytes

\* the message of lines 65-67 for each row a log can hold
MessageOfRow ==
    [row \in Rows |->
        Message(encode_utf8(SensorTopic(row.sensor_id)),
                pack_sensor_data(row))]

RowMessage(row) == MessageOfRow[row]

OnePass == [j \in 1..Len(df) |-> RowMessage(df[j])]

NumSentinels == Cardinality({j \in 1..Len(sent) : IsSentinelMsg(sent[j])})

\* C1: a non-looping replay of a log of k rows that ends without error or
\* interruption has sent exactly the k per-sensor messages, one per row in
\* record order, then exactly one sentinel; and at no time is a message
\* sent after a sentinel (a sentinel is always the last message sent).
C1_NonLoopingReplay ==
    /\ (~loop_data /\ pubExit = "finished")
          => sent = OnePass \o <<Sentinel>>
    /\ \A j \in 1..Len(sent) : IsSentinelMsg(sent[j]) => j = Len(sent)

C1_Witness ==
    /\ ~loop_data
    /\ pubExit = "finished"
    /\ pubPc = "done"
    /\ Len(df) = 2
    /\ Len(sent) = 3

\* C2: a subscriber started with consume(N) never receives or surfaces a
\* sample of a sensor id outside 1..N.
C2_OnlySubscribedSensors ==
    /\ \A j \in 1..Len(received) :
          \/ IsSentinelMsg(received[j])
          \/ \E k \in 1..N : received[j].topic = encode_utf8(SensorTopic(k))
    /\ \A j \in 1..Len(surfaced) : surfaced[j][1] \in 1..N

\* C3: the receive loop ends only on the sentinel or on cancellation; a
\* per-sensor message whose payload cannot be decoded does not end it.
C3_LoopEndsOnlyOnSentinelOrCancel ==
    subPc = "done" => subExit \in {"sentinel", "interrupted"}

\* C4: a publisher interrupted after its channel is open (also in the
\* middle of a looping replay) has emitted exactly one sentinel message by
\* the time it has closed its socket.
C4_InterruptEmitsSentinel ==
    (pubExit = "interrupted" /\ pubSock = "closed") => NumSentinels = 1

\* C5: an error raised in the middle of a replay (the loop was entered)
\* aborts the loop, and a sentinel is still the last message sent before
\* the socket is released.
C5_ErrorStillEmitsSentinel ==
    (pubExit = "error" /\ idx >= 1)
       => /\ sent # <<>>
          /\ sent[Len(sent)] = Sentinel
          /\ pubSock = "closed"

\* C6: in the first pass there is no suspension before sample 0, and for
\* every later sample i with t_i > t_(i-1) the suspension between the
\* emissions of samples i-1 and i is exactly t_i - t_(i-1) ms.
C6_GapsFollowTimestamps ==
    \A j \in 1..Len(gaps) :
        j <= Len(df) =>
            IF j = 1 THEN gaps[1] = 0
            ELSE (/\ ~df[j].time.isnan
                  /\ ~df[j - 1].time.isnan
                  /\ df[j].time.v > df[j - 1].time.v)
                    => gaps[j] = df[j].time.v - df[j - 1].time.v

\* C7: when the file path does not exist, neither component is started:
\* neither replay nor consume ever opens its socket.
C7_MissingFileStartsNothing ==
    ~path_exists => (subSock = "none" /\ pubSock = "none")

\* C8: a received message with topic 'control/done' ends the receive loop
\* by the break whatever its payload, the socket and context are then
\* released, and once the loop has ended this way no further message is
\* received or surfaced.
C8_SentinelStopsLoop ==
    [][/\ (/\ subPc = "recv"
           /\ queue # <<>>
           /\ Head(queue).topic = DoneBytes
           /\ received' # received)
          => (/\ subExit' = "sentinel"
              /\ subPc' = "done"
              /\ subSock' = "closed"
              /\ subCtx' = "terminated"
              /\ surfaced' = surfaced)
       /\ subExit = "sentinel"
          => (/\ received' = received
              /\ surfaced' = surfaced
              /\ subPc' = "done"
              /\ subSock' = "closed")]_vars

C8_Witness ==
    /\ subExit = "sentinel"
    /\ subSock = "closed"
    /\ received[Len(received)].payload # <<>>
    /\ queue # <<>>

\* C9: once a component has created its socket, every way its execution
\* ends leaves the socket closed and the context terminated.
C9_EveryExitReleases ==
    /\ (PubTerminated /\ pubSock # "none")
          => (pubSock = "closed" /\ pubCtx = "terminated")
    /\ (SubTerminated /\ subSock # "none")
          => (subSock = "closed" /\ subCtx = "terminated")

\* C10: with loop enabled the messages sent are the rows in record order,
\* pass after pass, each pass complete before the pause and the restart at
\* the first row (the pause of 1000 ms precedes the first row of every
\* later pass); no sentinel is among them, and the publisher leaves the
\* loop only by interruption (or an error).
C10_LoopingReplay ==
    loop_data =>
        /\ \A j \in 1..Len(sent) :
              sent[j] = RowMessage(df[((j - 1) % Len(df)) + 1])
        /\ pubPc = "restart" => Len(sent) = pass * Len(df)
        /\ \A j \in 2..Len(sent) : (j - 1) % Len(df) = 0 => gaps[j] >= 1000
        /\ NumSentinels = 0
        /\ pubPc = "done" => pubExit \in {"interrupted", "error"}

C10_Witness ==
    /\ loop_data
    /\ pubPc = "restart"
    /\ pass = 2
    /\ Len(df) = 2
    /\ Len(sent) = 4

\* C11: if the record source cannot be opened (the file is missing, or it
\* cannot be read or parsed into the required columns) the publisher puts
\* nothing on the channel: no per-sensor message and no sentinel.
C11_NoEmissionWithoutSource ==
    ~readable => (sent = <<>> /\ queue = <<>>)

C11_Witness ==
    /\ path_exists
    /\ ~readable
    /\ pubExit = "error"
    /\ pubSock = "closed"

\* C12: a publisher whose bind fails has its socket and context released
\* and has emitted nothing.
C12_BindFailureReleases ==
    pubExit = "transport"
       => (pubSock = "closed" /\ pubCtx = "terminated" /\ sent = <<>>)

\* the sentinel reached the SUB socket: the subscriptions were in effect
\* when replay sent it
SentinelDelivered ==
    \/ \E j \in 1..Len(queue) : IsSentinelMsg(queue[j])
    \/ \E j \in 1..Len(received) : IsSentinelMsg(received[j])

\* C13: in a run without external cancellation, once the sentinel of a
\* non-looping replay has been delivered to the subscriber, the run can
\* only stop in the state where the subscriber has received the sentinel
\* and stopped, both sockets are closed and the orchestrator's joins have
\* returned: until then some thread can take a step (and every step
\* advances a thread, so under the threads' fair scheduling that state is
\* reached).
C13_RunTerminates ==
    SentinelDelivered
       => \/ /\ subExit = "sentinel"
             /\ subSock = "closed"
             /\ pubExit = "finished"
             /\ pubSock = "closed"
             /\ orchPc = "finished"
          \/ ENABLED PubNext
          \/ ENABLED SubNext
          \/ ENABLED OrchNext

C13_Witness ==
    /\ subExit = "sentinel"
    /\ subSock = "closed"
    /\ pubExit = "finished"
    /\ pubSock = "closed"
    /\ orchPc = "finished"
    /\ Len(surfaced) = 2

\* C14: timestamps that repeat or decrease do not make the publisher fail:
\* after a row i with t_i - t_(i-1) <= 0 it does not sleep, so the next row
\* of the pass follows with no suspension (and the first row of the next
\* pass after the restart pause alone), and a pass over a log of numeric
\* timestamps emits every row in record order.
Numeric == \A j \in 1..Len(df) : ~df[j].time.isnan

Falls(j) == j >= 2 /\ df[j].time.v - df[j - 1].time.v <= 0

PassEnded == pubPc \in {"restart", "finish", "linger"} \/ pubExit = "finished"

C14_NoWaitOnNonIncrease ==
    Numeric =>
        /\ pubExit # "error" \/ df = <<>>
        /\ pubPc = "sleep" => time_diffs(idx).v > 0
        /\ \A j \in 2..Len(df) :
              (Falls(j) /\ j + 1 <= Len(gaps))
                 => gaps[j + 1] = IF j < Len(df) THEN 0
                                  ELSE IF loop_data THEN 1000
                                  ELSE 0
        /\ PassEnded => SubSeq(sent, 1, Len(df)) = OnePass

C14_Witness ==
    /\ Numeric
    /\ Len(df) = 3
    /\ Falls(2)
    /\ ~Falls(3)
    /\ pubExit = "finished"
    /\ gaps = <<0, 0, 0, df[3].time.v - df[2].time.v>>

\* the nine values of a row, in the order of the frame's fields
Fields(row) ==
    <<row.sensor_id, row.time.v,
      row.x, row.y, row.z, row.qw, row.qx, row.qy, row.qz>>

RECURSIVE OddPart(_)
OddPart(a) == IF a = 0 \/ a % 2 = 1 THEN a ELSE OddPart(a \div 2)

\* an integer that single precision holds exactly: 24 significant bits
IsSingle(v) == OddPart(IF v < 0 THEN -v ELSE v) < 16777216

SingleFloats(row) == \A j \in 3..9 : IsSingle(Fields(row)[j])

AllMessages == {MessageOfRow[row] : row \in Rows} \cup {Sentinel}

SubscribedMessages ==
    [n \in 1..MaxN |->
        {m \in AllMessages : Matches(Subscriptions(n), m.topic)}]

DecodedMessage ==
    [m \in AllMessages \ {Sentinel} |-> unpack_sensor_data(m.payload)]

Subscribed(m) == m \in SubscribedMessages[N]

IsSampleMsg(m) == ~IsSentinelMsg(m)

\* the messages sent whose topic matches the consumer's subscriptions
Matching == SelectSeq(sent, Subscribed)

\* the messages the consumer got, handled or still waiting in its socket
Arrived == received \o queue

C17_TopicsWellFormed ==
    \A j \in 1..Len(sent) :
        LET m == sent[j]
        IN  \/ /\ m.topic = encode_utf8(DoneTopic)
               /\ m.payload = <<>>
            \/ /\ m.topic # encode_utf8(DoneTopic)
               /\ Len(m.payload) = FrameLen
               /\ decode_utf8(m.topic) =
                     SensorPrefix \o Decimal(FromLE(SubSeq(m.payload, 1, 4)))

C17_Witness ==
    /\ Len(sent) = 3
    /\ decode_utf8(sent[1].topic) = SensorPrefix \o <<"1", "0">>
    /\ decode_utf8(sent[2].topic) = SensorPrefix \o <<"2">>
    /\ sent[3] = Sentinel

\* C18: the orchestrator reports the run finished only when the publisher
\* thread and the subscriber thread have both terminated.
C18_FinishedAfterBothThreads ==
    orchPc = "finished" => (PubTerminated /\ SubTerminated)

====
